---- MODULE Spec2Model ----
(***************************************************************************)
(* A model of the SISYPHOS benchmark plugin (SISYPHOS.py): the BenchJob    *)
(* pipeline (workspace setup, the refinement pass, the extraction of the   *)
(* statistics, the results file and the done marker) and the SISYPHOS      *)
(* orchestrator (init_sisy_jobs, run).                                     *)
(*                                                                         *)
(* The refinement engine (olex, olx, OV), the cctbx library and the file   *)
(* system are the environment: every call into them either returns or      *)
(* raises, and what they return is drawn from small sets.                  *)
(***************************************************************************)
EXTENDS Integers, Sequences, FiniteSets, TLC

(***************************************************************************)
(* Bounds of the model.                                                    *)
(***************************************************************************)
\* number of configurations of the benchmark source
NJobs == 2
\* number of times SISYPHOS.run is called in one behaviour
MaxRuns == 2
\* number of environment calls that raise in one behaviour of the orchestrator
MaxFaults == 1
\* number of bonded pairs the distance calculator yields
NPairs == 2

VARIABLES
    dataDir,     \* the data directory: file name -> content
    fs,          \* the job workspaces: job id -> directory (or absent)
    bench,       \* the benchmark source: job id -> configuration
    useNos2,     \* the host parameter sisyphos.use_nos2
    updateWeight,\* the host parameter sisyphos.update_weight
    jobIdx,      \* SISYPHOS.sisy_job_idx (-1: all jobs)
    opc,         \* position of SISYPHOS.run
    initI,       \* loop index of init_sisy_jobs
    job_list,    \* the jobs init_sisy_jobs has constructed
    runI,        \* index in job_list of the job SISYPHOS.run is at
    nRuns,       \* calls of SISYPHOS.run so far
    exc,         \* the exception that left the last top-level call
    job,         \* the BenchJob being constructed or run
    jpc,         \* position inside BenchJob.run
    loc,         \* local variables of refine and extract_info
    eng,         \* state of the refinement engine
    cmds,        \* engine commands issued by the job being run
    faults,      \* environment calls that raised so far
    sisy,        \* SISYPHOS.use_nosphera2 and SISYPHOS.nos2_options
    before,      \* the workspace as the last construction of a job found it
    world        \* the sets the environment draws its answers from

cfgVars  == <<dataDir, bench, useNos2, updateWeight, jobIdx, world>>
envVars  == <<cfgVars, before>>
orchVars == <<opc, initI, job_list, runI, nRuns, sisy>>
jobVars  == <<jpc, loc, eng, cmds, faults>>
vars     == <<dataDir, fs, bench, useNos2, updateWeight, jobIdx, opc, initI,
              job_list, runI, nRuns, exc, job, jpc, loc, eng, cmds, faults,
              sisy, before, world>>

JobIds == 0 .. (NJobs - 1)

(***************************************************************************)
(* The file system.  A file name is <<stem, extension>>; a directory is a  *)
(* function from the names of its files to their contents (sequences of    *)
(* strings); a workspace is a directory that may not exist.                *)
(***************************************************************************)
EmptyDir == [n \in {} |-> <<>>]

Absent == [exists |-> FALSE, files |-> EmptyDir]

Dir(files) == [exists |-> TRUE, files |-> files]

\* the directory d with file n holding content c (created or overwritten)
PutFile(d, n, c) == [m \in (DOMAIN d) \cup {n} |-> IF m = n THEN c ELSE d[m]]

LogFile     == <<"out", "log">>
ResultsFile == <<"results", "txt">>
DoneFile    == <<"done", "">>
CifFile     == <<"job", "cif">>

\* glob.glob(os.path.join(dir, "*.<ext>")): the files of d with that extension
Glob(d, ext) == {n \in DOMAIN d : n[2] = ext}

\* what glob(...)[0] may be: any match (the order of glob is the directory's),
\* or no file at all, in which case the index raises
NoFile == <<"", "">>

GlobFirst(d, ext) == IF Glob(d, ext) = {} THEN {NoFile} ELSE Glob(d, ext)

(***************************************************************************)
(* BenchJob.setup_workspace.  hk and ins are what glob(...)[0] yields for  *)
(* the two patterns (NoFile: no match).  The result is the workspace left  *)
(* behind, the exception raised ("none": it returned) and ins_file.        *)
(***************************************************************************)
setup_workspace_keep(w, d, hk, ins) ==
    LET made  == IF w.exists THEN w.files ELSE EmptyDir
        withH == PutFile(made, hk, d[hk])
        withI == PutFile(withH, ins, d[ins])
    IN  IF hk = NoFile
          THEN [ws |-> Dir(made), exc |-> "IndexError", ins_file |-> NoFile]
        ELSE IF ins = NoFile
          THEN [ws |-> Dir(withH), exc |-> "IndexError", ins_file |-> NoFile]
        ELSE [ws |-> Dir(withI), exc |-> "none",
              ins_file |-> CHOOSE n \in Glob(withI, "ins") : TRUE]

setup_workspace_strict(w, d, hk, ins) ==
    LET withH == PutFile(EmptyDir, hk, d[hk])
        withI == PutFile(withH, ins, d[ins])
    IN  IF Cardinality(Glob(d, "hkl")) # 1
          THEN [ws |-> Dir(EmptyDir), exc |-> "IndexError", ins_file |-> NoFile]
        ELSE IF Cardinality(Glob(d, "ins")) # 1
          THEN [ws |-> Dir(withH), exc |-> "IndexError", ins_file |-> NoFile]
        ELSE [ws |-> Dir(withI), exc |-> "none",
              ins_file |-> CHOOSE n \in Glob(withI, "ins") : TRUE]

setup_workspace(w, d, hk, ins) ==
    LET made  == EmptyDir                  \* makedirs, after rmtree if it existed
        withH == PutFile(made, hk, d[hk])  \* shutil.copy(glob("*.hkl")[0], work_path)
        withI == PutFile(withH, ins, d[ins])
    IN  IF hk = NoFile
          THEN [ws |-> Dir(made), exc |-> "IndexError", ins_file |-> NoFile]
        ELSE IF ins = NoFile
          THEN [ws |-> Dir(withH), exc |-> "IndexError", ins_file |-> NoFile]
        ELSE [ws |-> Dir(withI), exc |-> "none",
              ins_file |-> CHOOSE n \in Glob(withI, "ins") : TRUE]

(***************************************************************************)
(* BenchJob.__init__.  nos2_params is None or a dictionary.                *)
(***************************************************************************)
None == [isNone |-> TRUE, d |-> <<>>]

Some(d) == [isNone |-> FALSE, d |-> d]

NoJob == [id |-> -1, use_nos2 |-> FALSE, nos2_params |-> None,
          ins_file |-> NoFile, time_needed |-> 0, cycles_needed |-> 0]

BenchJob(w, d, id, use_nos2, nos2_params, hk, ins) ==
    LET s == setup_workspace(w, d, hk, ins)
    IN  [ws  |-> s.ws,
         exc |-> s.exc,
         job |-> [id            |-> id,
                  use_nos2      |-> IF nos2_params.isNone THEN FALSE ELSE use_nos2,
                  nos2_params   |-> nos2_params,
                  ins_file      |-> s.ins_file,
                  time_needed   |-> 0,
                  cycles_needed |-> 0]]

(***************************************************************************)
(* Dictionaries.  A Python dict keeps insertion order, and the results     *)
(* file is written in that order: a dict is a sequence of <<key, value>>   *)
(* pairs with distinct keys.                                               *)
(***************************************************************************)
DictKeys(d) == [i \in 1 .. Len(d) |-> d[i][1]]

DictHas(d, k) == \E i \in 1 .. Len(d) : d[i][1] = k

DictGet(d, k) == d[CHOOSE i \in 1 .. Len(d) : d[i][1] = k][2]

\* d[k] = v: an existing key keeps its place, a new key goes last
DictSet(d, k, v) ==
    IF DictHas(d, k)
      THEN [i \in 1 .. Len(d) |-> IF d[i][1] = k THEN <<k, v>> ELSE d[i]]
      ELSE Append(d, <<k, v>>)

RECURSIVE DictUpdate(_, _)
\* d.update(e)
DictUpdate(d, e) ==
    IF e = <<>> THEN d
    ELSE DictUpdate(DictSet(d, Head(e)[1], Head(e)[2]), Tail(e))

(***************************************************************************)
(* BenchJob.write_log and write_log_header: append to out.log in the       *)
(* job's workspace (open(..., "a") creates the file).  A log entry is a    *)
(* tuple: the fixed text of the message, then the values formatted into    *)
(* it where the model keeps them.                                          *)
(***************************************************************************)
LogOf(w) == IF LogFile \in DOMAIN w.files THEN w.files[LogFile] ELSE <<>>

write_log(w, msgs) ==
    IF msgs = << >> THEN w
    ELSE Dir(PutFile(w.files, LogFile, LogOf(w) \o msgs))

write_log_header(w, out) == write_log(w, <<<<"header", out>>>>)

(***************************************************************************)
(* The extinction reading, olx.xf.rm.Exti(): a text, the sentinel "n/a"    *)
(* or a number followed by its uncertainty in parentheses.  A text is a    *)
(* sequence of characters.                                                 *)
(***************************************************************************)
Digits == <<"0", "1", "2", "3", "4", "5", "6", "7", "8", "9">>

IsDigit(c) == \E i \in 1 .. 10 : Digits[i] = c

DigitVal(c) == (CHOOSE i \in 1 .. 10 : Digits[i] = c) - 1

ExtiNA == <<"n", "/", "a">>

RECURSIVE Pow10(_)
Pow10(n) == IF n = 0 THEN 1 ELSE 10 * Pow10(n - 1)

\* exti.split("(")[0]: the text before the first parenthesis (all of it if none)
SplitParen(s) ==
    IF \E i \in 1 .. Len(s) : s[i] = "("
      THEN SubSeq(s, 1, (CHOOSE i \in 1 .. Len(s) :
                           s[i] = "(" /\ \A j \in 1 .. (i - 1) : s[j] # "(") - 1)
      ELSE s

RECURSIVE DigitsValue(_)
\* the number a sequence of digits writes
DigitsValue(s) ==
    IF s = <<>> THEN 0
    ELSE 10 * DigitsValue(SubSeq(s, 1, Len(s) - 1)) + DigitVal(s[Len(s)])

\* float(text) for a plain decimal: an optional sign, digits with at most one
\* point, at least one digit.  The value is (-1)^neg * mant / 10^scale; any
\* other text raises ValueError (ok = FALSE).
ParseFloat(s) ==
    LET neg    == s # <<>> /\ s[1] = "-"
        body   == IF s # <<>> /\ s[1] \in {"-", "+"} THEN Tail(s) ELSE s
        points == {i \in 1 .. Len(body) : body[i] = "."}
        digs   == SelectSeq(body, IsDigit)
        ok     == /\ Cardinality(points) <= 1
                  /\ Len(digs) >= 1
                  /\ Len(digs) + Cardinality(points) = Len(body)
        scale  == IF points = {} THEN 0
                  ELSE Len(body) - (CHOOSE i \in points : TRUE)
    IN  [ok |-> ok, neg |-> neg,
         mant |-> IF ok THEN DigitsValue(digs) ELSE 0,
         scale |-> IF ok THEN scale ELSE 0]

\* the threshold 0.001 of the extinction branch, as ExtiThresholdNum / 10^ExtiThresholdExp
ExtiThresholdNum == 1
ExtiThresholdExp == 3

ExtiBelowOrAt(p) ==
    \/ p.mant = 0
    \/ p.neg
    \/ p.mant * Pow10(ExtiThresholdExp) <= ExtiThresholdNum * Pow10(p.scale)

\* float(...) < 0.001, for a parsed p
ExtiBelow(p) ==
    \/ p.mant = 0
    \/ p.neg
    \/ p.mant * Pow10(ExtiThresholdExp) < ExtiThresholdNum * Pow10(p.scale)

\* what the extinction branch of refine does with a reading:
\* "none" (the sentinel), "delins" (delete EXTI), "LM" (switch the optimizer),
\* "ValueError" (float() raises)
ExtiBranch(exti) ==
    IF exti = ExtiNA THEN "none"
    ELSE LET p == ParseFloat(SplitParen(exti))
         IN  IF ~p.ok THEN "ValueError"
             ELSE IF ExtiBelow(p) THEN "delins"
             ELSE "LM"

(***************************************************************************)
(* The refinement engine, as far as refine and configure_ORCA drive it:    *)
(* the loaded model, its instructions, the refinement program and the      *)
(* parameter store (values are kept as their text).                        *)
(***************************************************************************)
\* the NoSpherA2 options SISYPHOS.run reads (nos_params): of its 21 names the
\* model keeps those the code treats specially and one ordinary one
nos_params == <<"method", "multiplicity", "full_HAR", "Max_HAR_Cycles", "h_aniso">>

NosName(key) == <<"snum.NoSpherA2", key>>

ParamNames ==
    {NosName(nos_params[i]) : i \in 1 .. Len(nos_params)}
      \cup {NosName(k) : k \in {"source", "Calculate", "precise_output",
                                "use_aspherical"}}
      \cup {<<"snum.refinement", "update_weight">>}

\* the parameter store the host starts with
HostParams ==
    [n \in ParamNames |->
        CASE n = NosName("method")         -> "PBE"
          [] n = NosName("multiplicity")   -> "0"
          [] n = NosName("Max_HAR_Cycles") -> "10"
          [] n = NosName("source")         -> "Tonto"
          [] OTHER                         -> "False"]

EngInit == [loaded |-> NoFile, ins |-> {}, program |-> "", params |-> HostParams]

\* the host as an earlier advanced refinement leaves it: use_aspherical is on
EngAspherical == [EngInit EXCEPT !.params[NosName("use_aspherical")] = "True"]

(***************************************************************************)
(* The statements of refine and configure_ORCA are sequences of items: a   *)
(* call into the engine (which may raise) or a write to the job's log.     *)
(* Running the first n items of a sequence from a state st = [eng, cmds,   *)
(* log] applies their effects in order; cmds records every call issued,    *)
(* with the stage of the pass it belongs to and the value of               *)
(* use_aspherical it was issued under.                                     *)
(***************************************************************************)
Call(op, arg, val, stage) ==
    [kind |-> "call", op |-> op, arg |-> arg, val |-> val, stage |-> stage]

LogItem(msg) == [kind |-> "log", msg |-> msg]

Issued(e, c) ==
    [op |-> c.op, arg |-> c.arg, val |-> c.val, stage |-> c.stage,
     asph |-> e.params[NosName("use_aspherical")]]

\* the engine after call c returned
ApplyCall(e, c) ==
    CASE c.op = "reap"     -> [e EXCEPT !.loaded = c.arg]
      [] c.op = "AddIns"   -> [e EXCEPT !.ins = @ \cup {c.arg}]
      [] c.op = "delins"   -> [e EXCEPT !.ins = @ \ {c.arg}]
      [] c.op = "set_refinement_program" -> [e EXCEPT !.program = c.arg]
      [] c.op = "SetParam" -> [e EXCEPT !.params[c.arg] = c.val]
      [] OTHER             -> e

ApplyItem(st, it) ==
    IF it.kind = "log"
      THEN [st EXCEPT !.log = Append(@, it.msg)]
      ELSE [st EXCEPT !.eng = ApplyCall(st.eng, it),
                      !.cmds = Append(@, Issued(st.eng, it))]

RECURSIVE ApplyItems(_, _, _)
ApplyItems(st, items, n) ==
    IF n = 0 THEN st
    ELSE ApplyItem(ApplyItems(st, items, n - 1), items[n])

\* the state in which call k of items has raised: the items before it are
\* done, the call itself was issued and changed nothing
RaisedAt(st, items, k) ==
    LET sofar == ApplyItems(st, items, k - 1)
    IN  [sofar EXCEPT !.cmds = Append(@, Issued(sofar.eng, items[k]))]

CallsOf(items) == {k \in 1 .. Len(items) : items[k].kind = "call"}

(***************************************************************************)
(* BenchJob.refine, stage by stage (the stages are those of the pass:      *)
(* 1 load, 2 prepare, 3 weighting, 4 engine selection, 5 IAM pass,         *)
(* 6 extinction branch, 7 second IAM pass, 8 advanced pass).               *)
(***************************************************************************)
LoadItems(j) ==
    << Call("reap", j.ins_file, "", 1),
       LogItem(<<"header", "Starting New Refinement">>),
       LogItem(<<"ID", j.id>>),
       LogItem(<<"Was able to load .ins", j.ins_file>>) >>

PrepareItems ==
    << Call("AddIns", "EXTI", "", 2),
       Call("AddIns", "ACTA", "", 2),
       Call("m", "fix disp -c", "", 2) >>

WeightItems(update_weight) ==
    << Call("GetParam", <<"sisyphos", "update_weight">>, "", 3) >> \o
    ( IF update_weight
        THEN << Call("SetParam", <<"snum.refinement", "update_weight">>, "True", 3),
                LogItem(<<"Refining the weighting scheme">>) >>
        ELSE << Call("SetParam", <<"snum.refinement", "update_weight">>, "False", 3),
                LogItem(<<"keeping weighting scheme">>) >> )

SelectItems ==
    << Call("set_refinement_program", "Gauss-Newton", "", 4),
       LogItem(<<"Set refinement engine olex2.refine with G-N">>) >>

IamItems ==
    << Call("SetParam", NosName("use_aspherical"), "False", 5),
       Call("refine", "5", "", 5),
       Call("refine", "5", "", 5),
       Call("refine", "5", "", 5) >>

ExtiReadItems(exti) ==
    << Call("Exti", "", "", 6),
       LogItem(<<"Found Extinction">>) >>

ExtiBranchItems(exti) ==
    CASE ExtiBranch(exti) = "delins" ->
           << Call("delins", "EXTI", "", 6),
              LogItem(<<"Deleted EXTI with exti of">>) >>
      [] ExtiBranch(exti) = "LM" ->
           << LogItem(<<"Exti > 0.001, set L-M instead of G-N">>),
              Call("set_refinement_program", "Levenberg-Marquardt", "", 6) >>
      [] OTHER -> << >>

SecondItems_five == << Call("refine", "5", "", 7) >>

\* line 166
SecondItems == << Call("refine", "10", "", 7) >>

RECURSIVE ConfigureKeys(_)
\* the loop of configure_ORCA over the job's parameters
ConfigureKeys(d) ==
    IF d = <<>> THEN << >>
    ELSE << Call("SetParam", NosName(Head(d)[1]), Head(d)[2], 8),
            Call("GetParam", NosName(Head(d)[1]), "", 8),
            LogItem(<<"param", Head(d)[1]>>) >> \o ConfigureKeys(Tail(d))

ConfigureHead_forced_first(j, gui) ==
    << Call("EndUpdate", "", "", 8), Call("HasGUI", "", "", 8) >> \o
    ( IF gui THEN << Call("Refresh", "", "", 8) >> ELSE << >> ) \o
    << Call("SetParam", NosName("source"), "ORCA 6.0", 8),
       Call("SetParam", NosName("Calculate"), "True", 8),
       Call("SetParam", NosName("precise_output"), "True", 8),
       Call("SetParam", NosName("use_aspherical"), "True", 8),
       Call("SetParam", NosName("h_aniso"), "True", 8) >> \o
    ConfigureKeys(j.nos2_params.d) \o
    << Call("GetParam", NosName("multiplicity"), "", 8) >>

\* configure_ORCA up to the test of the multiplicity
ConfigureHead(j, gui) ==
    << Call("EndUpdate", "", "", 8), Call("HasGUI", "", "", 8) >> \o
    ( IF gui THEN << Call("Refresh", "", "", 8) >> ELSE << >> ) \o
    << Call("SetParam", NosName("source"), "ORCA 6.0", 8) >> \o
    ConfigureKeys(j.nos2_params.d) \o
    << Call("SetParam", NosName("Calculate"), "True", 8),
       Call("SetParam", NosName("precise_output"), "True", 8),
       Call("SetParam", NosName("use_aspherical"), "True", 8),
       Call("SetParam", NosName("h_aniso"), "True", 8),
       Call("GetParam", NosName("multiplicity"), "", 8) >>

configure_ORCA(e, j, gui) ==
    LET head == ConfigureHead(j, gui)
        st   == ApplyItems([eng |-> e, cmds |-> <<>>, log |-> <<>>], head, Len(head))
    IN  head \o
        ( IF st.eng.params[NosName("multiplicity")] = "0"
            THEN << LogItem(<<"I wil set a Multiplicity of 1, since none selected">>),
                    Call("SetParam", NosName("multiplicity"), "1", 8) >>
            ELSE << >> )

\* stage 8: configure_ORCA, the 20-step refinement, the two reads of Run_number
AdvancedItems(e, j, gui) ==
    configure_ORCA(e, j, gui) \o
    << LogItem(<<"Starting iterative NoSpherA2 refinement">>),
       Call("refine", "20", "", 8),
       LogItem(<<"Refinement took seconds">>),
       Call("GetVar", "Run_number", "", 8),
       LogItem(<<"Refinement took cycles">>),
       Call("GetVar", "Run_number", "", 8) >>

\* the position refine continues at once a stage is done
AfterStage(stage, j) ==
    CASE stage = "load"     -> "prepare"
      [] stage = "prepare"  -> "weight"
      [] stage = "weight"   -> "select"
      [] stage = "select"   -> "iam"
      [] stage = "iam"      -> "exti"
      [] stage = "exti"     -> "second"
      [] stage = "second"   -> IF j.use_nos2 THEN "advanced" ELSE "finished"
      [] OTHER              -> "finished"

refine_except_resume(stage, j) == AfterStage(stage, j)

\* the position after the except clause of refine: refine returns
refine_except(stage, j) == "finished"

\* what the except clause of refine writes to the log
RefineExceptLog == << <<"error">>, <<"Failed during refinenement!">> >>

(***************************************************************************)
(* BenchJob.parse_cif.  The report file is a sequence of lines; a line is  *)
(*   [kind |-> "field", name, val]  a line holding one of corr_filts, val  *)
(*                                  its last whitespace-delimited token    *)
(*   [kind |-> "header"]            "  _atom_site_refinement_flags_..."    *)
(*   [kind |-> "atom", label, ueq]  an atom record: lin[1] and lin[6]      *)
(*   [kind |-> "short"]             a line with fewer than seven tokens    *)
(*   [kind |-> "blank"]             "\n"                                   *)
(* The result is the dictionary out and what was written to the log.       *)
(***************************************************************************)
CifNames == <<"mu", "wavelength", "F000", "tot_reflIns", "goof", "R_all", "R1",
              "wR2", "last Shift">>

\* int(text): digits only
ParseInt(s) ==
    [ok |-> s # <<>> /\ \A i \in 1 .. Len(s) : IsDigit(s[i]),
     val |-> IF s # <<>> /\ \A i \in 1 .. Len(s) : IsDigit(s[i])
               THEN DigitsValue(s) ELSE 0]

RECURSIVE CifFields(_, _, _)
\* the first pass from line i: out so far; raised when float() failed
CifFields(lines, i, out) ==
    IF i > Len(lines) THEN [out |-> out, raised |-> FALSE]
    ELSE IF lines[i].kind # "field" THEN CifFields(lines, i + 1, out)
    ELSE LET v == ParseFloat(lines[i].val)
         IN  IF ~v.ok THEN [out |-> out, raised |-> TRUE]
             ELSE CifFields(lines, i + 1, DictSet(out, <<lines[i].name>>, v))

\* lin[6].split("(")[1][:-1]: the text after the first parenthesis, less its
\* last character; ok = FALSE when there is no parenthesis
UeqDelta(s) ==
    LET pre == SplitParen(s)
    IN  IF Len(pre) = Len(s) THEN [ok |-> FALSE, text |-> <<>>]
        ELSE LET rest == SubSeq(s, Len(pre) + 2, Len(s))
                 part == SplitParen(rest)
             IN  [ok |-> TRUE, text |-> SubSeq(part, 1, Len(part) - 1)]

RECURSIVE CifAtoms(_, _, _, _)
\* the second pass from line i, switch2 as given
CifAtoms(lines, i, switch2, out) ==
    IF i > Len(lines) THEN [out |-> out, raised |-> FALSE]
    ELSE IF lines[i].kind = "header" THEN CifAtoms(lines, i + 1, TRUE, out)
    ELSE IF ~switch2 THEN CifAtoms(lines, i + 1, FALSE, out)
    ELSE IF lines[i].kind = "blank" THEN CifAtoms(lines, i + 1, FALSE, out)
    ELSE IF lines[i].kind # "atom" THEN [out |-> out, raised |-> TRUE]
    ELSE LET ueq   == ParseFloat(SplitParen(lines[i].ueq))
             delta == UeqDelta(lines[i].ueq)
             dval  == ParseInt(delta.text)
         IN  IF ~delta.ok \/ ~ueq.ok \/ ~dval.ok
               THEN [out |-> out, raised |-> TRUE]
               ELSE CifAtoms(lines, i + 1, TRUE,
                             DictSet(out, <<lines[i].label, "_ueq">>,
                                     <<ueq, dval.val>>))

parse_cif_switch_on(lines) ==
    LET first  == CifFields(lines, 1, << >>)
        second == CifAtoms(lines, 1, TRUE, first.out)
    IN  [out |-> second.out,
         log |-> << IF first.raised
                      THEN <<"Basic cif extraction failed! :(">>
                      ELSE <<"Basic cif extraction succesfull :)">> >> \o
                 ( IF second.raised
                     THEN << <<"error">>, <<"Extended cif extraction failed!">> >>
                     ELSE << >> )]

\* lines 219-248
parse_cif(lines) ==
    LET first  == CifFields(lines, 1, << >>)
        second == CifAtoms(lines, 1, FALSE, first.out)
    IN  [out |-> second.out,
         log |-> << IF first.raised
                      THEN <<"Basic cif extraction failed! :(">>
                      ELSE <<"Basic cif extraction succesfull :)">> >> \o
                 ( IF second.raised
                     THEN << <<"error">>, <<"Extended cif extraction failed!">> >>
                     ELSE << >> )]

(***************************************************************************)
(* BenchJob.extract_info: its local variables and the results block.       *)
(***************************************************************************)
Unbound == [bound |-> FALSE, d |-> << >>]

Bound(d) == [bound |-> TRUE, d |-> d]

\* the queries of the cell statistics, in order
CellKeys == <<"a", "b", "c", "alpha", "beta", "gamma", "volume", "Z", "Zprime">>

\* cell_stats once the first n queries have returned
CellStats(n) == [i \in 1 .. n |-> <<CellKeys[i], "value">>]

\* the indices of cell_params and cell_errors: a, b, c, alpha, beta, gamma
CellIdx == 0 .. 5

\* line 328: the diagonal matrix of cell_errors, every entry squared
DiagSquared(cell_errors) ==
    [p \in CellIdx \X CellIdx |->
        IF p[1] = p[2] THEN cell_errors[p[1]] * cell_errors[p[1]] ELSE 0]

\* lines 329-330: the pairs (i, j) in the order the two loops visit them
AxisPairs == << <<0, 1>>, <<0, 2>>, <<1, 2>> >>

SameAxis_lengths_only(cell_params, cell_errors, i, j) ==
    /\ cell_params[i] = cell_params[j]
    /\ cell_errors[i] = cell_errors[j]

\* lines 331-338: the condition under which the pair (i, j) is coupled
SameAxis(cell_params, cell_errors, i, j) ==
    /\ cell_params[i] = cell_params[j]
    /\ cell_errors[i] = cell_errors[j]
    /\ cell_params[i + 3] = 90
    /\ cell_errors[i + 3] = 0
    /\ cell_params[j + 3] = 90
    /\ cell_errors[j + 3] = 0

RECURSIVE CellLoop(_, _, _, _)
\* lines 329-340: the matrix after the first n pairs
CellLoop(vcv, cell_params, cell_errors, n) ==
    IF n = 0 THEN vcv
    ELSE LET prev == CellLoop(vcv, cell_params, cell_errors, n - 1)
             i    == AxisPairs[n][1]
             j    == AxisPairs[n][2]
         IN  IF SameAxis(cell_params, cell_errors, i, j)
               THEN [prev EXCEPT ![<<i, j>>] = cell_errors[i] * cell_errors[i],
                                 ![<<j, i>>] = cell_errors[i] * cell_errors[i]]
               ELSE prev

\* lines 328-340: cell_vcv as it stands before line 342 packs its upper triangle
cell_vcv(cell_params, cell_errors) ==
    CellLoop(DiagSquared(cell_errors), cell_params, cell_errors, Len(AxisPairs))

\* the calls of the propagation block before the loop over the distances
PropCalls(j) ==
    ( IF j.use_nos2 THEN << "GetParam file" >> ELSE << >> ) \o
    << "import", "FullMatrixRefine", "fmr.run", "build_up",
       "r1_factor", "r1_factor gt", "wR2",
       "connectivity_table", "xray_structure", "getCell", "getCellErrors",
       "cell_vcv", "extract_labels", "sites_frac", "covariance_matrix",
       "parameter_map", "pair_asu_table", "calculate_distances" >>

PropIndex(j, name) == CHOOSE k \in 1 .. Len(PropCalls(j)) : PropCalls(j)[k] = name

\* the scatterer labels and the label of the bond of pair k (atom 1 with atom k + 1)
ScattererLabel(n) == IF n = 1 THEN <<"O", 1>> ELSE <<"H", n - 1>>

BondLabel(k) == <<ScattererLabel(1), "-", ScattererLabel(k + 1)>>

\* math.sqrt of a variance that is a perfect square
Sqrt(v) == CHOOSE r \in 0 .. v : r * r = v

refine_dict_keys == <<"max_peak", "max_hole", "res_rms", "goof",
                      "max_shift_over_esd", "hooft_str">>

Hdr(text) == <<"hdr", text>>

KVs(d) == [i \in 1 .. Len(d) |-> <<"kv", d[i][1], d[i][2]>>]

RECURSIVE BondErrors_reversed(_, _)
BondErrors_reversed(keys, errs) ==
    IF keys = << >> THEN [toks |-> << >>, raised |-> FALSE]
    ELSE IF ~DictHas(errs, Head(keys)) THEN [toks |-> << >>, raised |-> TRUE]
    ELSE LET rest == BondErrors_reversed(Tail(keys), errs)
         IN  [toks |-> rest.toks \o << <<"kv", Head(keys), DictGet(errs, Head(keys))>> >>,
              raised |-> rest.raised]

RECURSIVE BondErrors(_, _)
\* the loop writing bonderrors: dist_errs[key] for every key of dist_stats;
\* a key dist_errs lacks raises KeyError
BondErrors(keys, errs) ==
    IF keys = << >> THEN [toks |-> << >>, raised |-> FALSE]
    ELSE IF ~DictHas(errs, Head(keys)) THEN [toks |-> << >>, raised |-> TRUE]
    ELSE LET rest == BondErrors(Tail(keys), errs)
         IN  [toks |-> << <<"kv", Head(keys), DictGet(errs, Head(keys))>> >> \o rest.toks,
              raised |-> rest.raised]

\* The parts of the results block in the order they are written; each part
\* is what it writes and whether it raises at its end.  fault names the
\* engine query that raises during the write ("none": none does).
ResultParts(j, l, update_weight, fault) ==
    LET errs == BondErrors(DictKeys(l.dist_stats), l.dist_errs)
    IN << [toks |-> << Hdr("NoSpherA2_Dict:") >> \o
                    ( IF j.use_nos2 THEN KVs(j.nos2_params.d) ELSE << >> ),
           raised |-> FALSE],
          [toks |-> << Hdr("Stats-GetHklStat:") >> \o KVs(l.hkl_stats) \o
                    << Hdr("Cell-Stats:") >> \o KVs(l.cell_stats) \o
                    << Hdr("CIF-stats:") >>,
           raised |-> ~l.cif_stats.bound],
          [toks |-> KVs(l.cif_stats.d) \o << Hdr("refine_dict:") >>,
           raised |-> fault = "refine_dict"],
          [toks |-> [i \in 1 .. Len(refine_dict_keys) |->
                        <<"kv", refine_dict_keys[i], "value">>] \o
                    << <<"R", l.R1_all, l.R1_gt, l.wR2,
                         j.cycles_needed, j.time_needed>> >> \o
                    << Hdr("bondlengths:") >> \o KVs(l.dist_stats) \o
                    << Hdr("bonderrors:") >> \o errs.toks,
           raised |-> errs.raised],
          [toks |-> << >>, raised |-> fault = "weight"],
          [toks |-> << <<"Weight", update_weight>> >>, raised |-> fault = "npd"],
          [toks |-> << <<"Nr. NPD", "value">>, <<"sep">> >>, raised |-> FALSE] >>

RECURSIVE WriteParts(_, _)
\* what reaches the file: the parts up to the first that raises
WriteParts(parts, i) ==
    IF i > Len(parts) THEN [toks |-> << >>, raised |-> FALSE]
    ELSE IF parts[i].raised THEN [toks |-> parts[i].toks, raised |-> TRUE]
    ELSE LET rest == WriteParts(parts, i + 1)
         IN  [toks |-> parts[i].toks \o rest.toks, raised |-> rest.raised]

ResultsOf(w) == IF ResultsFile \in DOMAIN w.files THEN w.files[ResultsFile] ELSE << >>

\* open(results.txt, "a") and the writes
write_results(w, toks) == Dir(PutFile(w.files, ResultsFile, ResultsOf(w) \o toks))

(***************************************************************************)
(* The actions of BenchJob.refine.  A stage either runs to its end or one  *)
(* of its calls raises; the except clause of refine then logs the error    *)
(* and refine returns.  A refinement command that returned may have        *)
(* written the report file (.cif) into the workspace.                      *)
(***************************************************************************)
St == [eng |-> eng, cmds |-> cmds, log |-> << >>]

NoCif == << >>

\* what the engine may have written once the first n items are done
CifChoices(items, n) ==
    IF \E i \in 1 .. n : items[i].kind = "call" /\ items[i].op = "refine"
      THEN world.cifs
      ELSE {NoCif}

WithCif(w, c) == IF c = NoCif THEN w ELSE Dir(PutFile(w.files, CifFile, c))

CanFault == faults < world.faultCap

\* the calls of a stage that may raise
FaultCalls(items) ==
    IF world.refineFaults = "all" THEN CallsOf(items)
    ELSE {k \in CallsOf(items) : \A m \in CallsOf(items) : k <= m}

StageReturns(stage, items) ==
    /\ jpc = stage
    /\ LET st == ApplyItems(St, items, Len(items))
       IN  \E c \in CifChoices(items, Len(items)) :
             /\ eng' = st.eng
             /\ cmds' = st.cmds
             /\ fs' = [fs EXCEPT ![job.id] = WithCif(write_log(@, st.log), c)]
    /\ jpc' = AfterStage(stage, job)
    /\ UNCHANGED <<faults, exc, envVars, orchVars>>

StageRaises(stage, items) ==
    /\ jpc = stage
    /\ CanFault
    /\ \E k \in FaultCalls(items) :
         LET st == RaisedAt(St, items, k)
         IN  \E c \in CifChoices(items, k - 1) :
               /\ eng' = st.eng
               /\ cmds' = st.cmds
               /\ fs' = [fs EXCEPT ![job.id] =
                            WithCif(write_log(@, st.log \o RefineExceptLog), c)]
    /\ jpc' = refine_except(stage, job)
    /\ faults' = faults + 1
    /\ UNCHANGED <<exc, envVars, orchVars>>

Failed(l, at) == [l EXCEPT !.failedAt = at]

Load ==
    \/ StageReturns("load", LoadItems(job)) /\ UNCHANGED <<loc, job>>
    \/ /\ StageRaises("load", LoadItems(job))
       /\ loc' = Failed(loc, Len(cmds'))
       /\ UNCHANGED job

Prepare ==
    \/ StageReturns("prepare", PrepareItems) /\ UNCHANGED <<loc, job>>
    \/ /\ StageRaises("prepare", PrepareItems)
       /\ loc' = Failed(loc, Len(cmds'))
       /\ UNCHANGED job

WeightPolicy ==
    \/ StageReturns("weight", WeightItems(updateWeight)) /\ UNCHANGED <<loc, job>>
    \/ /\ StageRaises("weight", WeightItems(updateWeight))
       /\ loc' = Failed(loc, Len(cmds'))
       /\ UNCHANGED job

EngineSelect ==
    \/ StageReturns("select", SelectItems) /\ UNCHANGED <<loc, job>>
    \/ /\ StageRaises("select", SelectItems)
       /\ loc' = Failed(loc, Len(cmds'))
       /\ UNCHANGED job

IamPass ==
    \/ StageReturns("iam", IamItems) /\ UNCHANGED <<loc, job>>
    \/ /\ StageRaises("iam", IamItems)
       /\ loc' = Failed(loc, Len(cmds'))
       /\ UNCHANGED job

\* lines 152-163: the reading, then the branch on it
ExtinctionBranch ==
    \E exti \in world.extis :
      LET items == ExtiReadItems(exti) \o ExtiBranchItems(exti)
      IN  \/ /\ ExtiBranch(exti) # "ValueError"
             /\ StageReturns("exti", items)
             /\ loc' = [loc EXCEPT !.exti = exti]
             /\ UNCHANGED job
          \/ /\ StageRaises("exti", items)
             /\ loc' = [Failed(loc, Len(cmds')) EXCEPT
                          !.exti = IF Len(cmds') > Len(cmds) + 1 THEN exti ELSE @]
             /\ UNCHANGED job
          \/ \* float() raises on the reading
             /\ jpc = "exti"
             /\ ExtiBranch(exti) = "ValueError"
             /\ LET st == ApplyItems(St, ExtiReadItems(exti), 2)
                IN  /\ eng' = st.eng
                    /\ cmds' = st.cmds
                    /\ fs' = [fs EXCEPT ![job.id] =
                                 write_log(@, st.log \o RefineExceptLog)]
             /\ jpc' = refine_except("exti", job)
             /\ loc' = [Failed(loc, Len(cmds')) EXCEPT !.exti = exti]
             /\ UNCHANGED <<faults, exc, job, envVars, orchVars>>

SecondIam ==
    \/ StageReturns("second", SecondItems) /\ UNCHANGED <<loc, job>>
    \/ /\ StageRaises("second", SecondItems)
       /\ loc' = Failed(loc, Len(cmds'))
       /\ UNCHANGED job

\* lines 169-181
AdvancedPass ==
    \E gui \in world.guis, cyc \in world.cycles :
      LET items == AdvancedItems(eng, job, gui)
      IN  \/ /\ StageReturns("advanced", items)
             /\ job' = [job EXCEPT !.time_needed = 1, !.cycles_needed = cyc]
             /\ UNCHANGED loc
          \/ /\ StageRaises("advanced", items)
             /\ loc' = Failed(loc, Len(cmds'))
             \* the second read of Run_number raised: time_needed is set already
             /\ job' = IF Len(cmds') - Len(cmds) = Cardinality(CallsOf(items))
                         THEN [job EXCEPT !.time_needed = 1]
                         ELSE job

(***************************************************************************)
(* BenchJob.run and BenchJob.extract_info.                                 *)
(***************************************************************************)
LocInit ==
    [exti       |-> << >>,    \* refine: the extinction reading
     failedAt   |-> 0,        \* the command of cmds that raised in refine (0: none)
     nExtract   |-> 0,        \* calls of extract_info by this run
     raised     |-> {},       \* the parts of extract_info in which a call raised
     propAt     |-> "",       \* the step of the propagation block that raised
     extract    |-> "",       \* how extract_info ended: "returned" or "raised"
     cell_stats |-> << >>,
     hkl_stats  |-> << >>,
     cif_stats  |-> Unbound,
     dist_stats |-> << >>,
     dist_errs  |-> << >>,
     R1_all     |-> 0,
     R1_gt      |-> 0,
     wR2        |-> 0,
     cell_params |-> << >>,
     cell_errors |-> << >>,
     cell_vcv   |-> << >>,   \* the matrix of lines 328-340, before it is packed
     pairI      |-> 0]

\* lines 252-255: refine has returned; the header is logged, extract_info called
RunAfterRefine ==
    /\ jpc = "finished"
    /\ fs' = [fs EXCEPT ![job.id] = write_log_header(@, "Finished Refinement")]
    /\ loc' = [loc EXCEPT !.exti = << >>, !.nExtract = @ + 1]
    /\ jpc' = "cell"
    /\ UNCHANGED <<exc, job, eng, cmds, faults, envVars, orchVars>>

\* lines 268-279
ExtractCell ==
    /\ jpc = "cell"
    /\ \/ /\ loc' = [loc EXCEPT !.cell_stats = CellStats(Len(CellKeys))]
          /\ UNCHANGED <<fs, faults>>
       \/ /\ CanFault
          /\ \E k \in world.cellFaults :
               loc' = [loc EXCEPT !.cell_stats = CellStats(k - 1),
                                  !.raised = @ \cup {"cell"}]
          /\ fs' = [fs EXCEPT ![job.id] =
                       write_log(@, << <<"error">>, <<"Failed to extract Cell stats.">> >>)]
          /\ faults' = faults + 1
    /\ jpc' = "hkl"
    /\ UNCHANGED <<exc, job, eng, cmds, envVars, orchVars>>

\* line 281: the reflection statistics, outside any try
ExtractHkl ==
    /\ jpc = "hkl"
    /\ \/ /\ loc' = [loc EXCEPT !.hkl_stats = << <<"TotalReflections", "value">> >>]
          /\ jpc' = "cif"
          /\ UNCHANGED faults
       \/ /\ CanFault
          /\ loc' = [loc EXCEPT !.raised = @ \cup {"hkl"}, !.extract = "raised"]
          /\ jpc' = "raised"
          /\ faults' = faults + 1
    /\ UNCHANGED <<fs, exc, job, eng, cmds, envVars, orchVars>>

\* lines 283-289
ExtractCif ==
    /\ jpc = "cif"
    /\ \/ /\ Glob(fs[job.id].files, "cif") # {}
          /\ LET locat == CHOOSE n \in Glob(fs[job.id].files, "cif") : TRUE
                 res   == parse_cif(fs[job.id].files[locat])
             IN  /\ loc' = [loc EXCEPT !.cif_stats = Bound(res.out)]
                 /\ fs' = [fs EXCEPT ![job.id] = write_log(@, res.log)]
       \/ /\ Glob(fs[job.id].files, "cif") = {}
          /\ loc' = [loc EXCEPT !.raised = @ \cup {"cif"}]
          /\ fs' = [fs EXCEPT ![job.id] =
                       write_log(@, << <<"error">>, <<"Failed to extract cif stats!">> >>)]
    /\ jpc' = "prop"
    /\ UNCHANGED <<exc, job, eng, cmds, faults, envVars, orchVars>>

PropExceptLog == << <<"error">>, <<"Failed to extract distances">> >>

\* the R-factors assigned once the first n calls of the block have returned
WithRFactors(l, j, r, n) ==
    [l EXCEPT !.R1_all = IF n >= PropIndex(j, "r1_factor") THEN r.all ELSE @,
              !.R1_gt  = IF n >= PropIndex(j, "r1_factor gt") THEN r.gt ELSE @,
              !.wR2    = IF n >= PropIndex(j, "wR2") THEN r.wR2 ELSE @]

\* the cell and its covariance once the first n calls of the block have returned
WithCell(l, j, c, n) ==
    [l EXCEPT !.cell_params = IF n >= PropIndex(j, "getCell") THEN c.params ELSE @,
              !.cell_errors = IF n >= PropIndex(j, "getCellErrors") THEN c.errors ELSE @,
              !.cell_vcv    = IF n >= PropIndex(j, "cell_vcv")
                                THEN cell_vcv(c.params, c.errors) ELSE @]

\* lines 297-357: the propagation block up to the loop
Propagation ==
    /\ jpc = "prop"
    /\ \E r \in world.rfactors, c \in world.cells :
         \/ /\ loc' = WithCell(WithRFactors(loc, job, r, Len(PropCalls(job))),
                              job, c, Len(PropCalls(job)))
            /\ jpc' = "pairs"
            /\ UNCHANGED <<fs, faults>>
         \/ /\ CanFault
            /\ \E k \in {n \in 1 .. Len(PropCalls(job)) :
                           PropCalls(job)[n] \in world.propFaults} :
                 loc' = [WithCell(WithRFactors(loc, job, r, k - 1), job, c, k - 1) EXCEPT
                           !.raised = @ \cup {"prop"},
                           !.propAt = PropCalls(job)[k]]
            /\ fs' = [fs EXCEPT ![job.id] = write_log(@, PropExceptLog)]
            /\ jpc' = "write"
            /\ faults' = faults + 1
    /\ UNCHANGED <<exc, job, eng, cmds, envVars, orchVars>>

\* lines 360-363: one turn of the loop over the distances
PairLoop ==
    /\ jpc = "pairs"
    /\ \/ /\ loc.pairI < NPairs
          /\ \E v \in world.variances :
               LET bond  == BondLabel(loc.pairI + 1)
                   withD == [loc EXCEPT !.pairI = @ + 1,
                                        !.dist_stats = DictSet(@, bond, 97 + loc.pairI)]
               IN  IF v < 0
                     THEN \* math.sqrt raises ValueError
                          /\ loc' = [withD EXCEPT !.raised = @ \cup {"prop"},
                                                  !.propAt = "sqrt"]
                          /\ fs' = [fs EXCEPT ![job.id] = write_log(@, PropExceptLog)]
                          /\ jpc' = "write"
                     ELSE /\ loc' = [withD EXCEPT !.dist_errs = DictSet(@, bond, Sqrt(v))]
                          /\ jpc' = "pairs"
                          /\ UNCHANGED fs
          /\ UNCHANGED faults
       \/ \* the iteration itself raises
          /\ loc.pairI < NPairs
          /\ CanFault
          /\ "pair" \in world.propFaults
          /\ loc' = [loc EXCEPT !.raised = @ \cup {"prop"}, !.propAt = "pair"]
          /\ fs' = [fs EXCEPT ![job.id] = write_log(@, PropExceptLog)]
          /\ jpc' = "write"
          /\ faults' = faults + 1
       \/ /\ loc.pairI = NPairs
          /\ jpc' = "write"
          /\ UNCHANGED <<fs, loc, faults>>
    /\ UNCHANGED <<exc, job, eng, cmds, envVars, orchVars>>

\* lines 373-421
WriteResults ==
    /\ jpc = "write"
    /\ \E fault \in {"none"} \cup world.writeFaults :
         LET plain == WriteParts(ResultParts(job, loc, updateWeight, "none"), 1)
             w     == WriteParts(ResultParts(job, loc, updateWeight, fault), 1)
         IN  /\ fault # "none" => CanFault /\ w # plain
             /\ fs' = [fs EXCEPT ![job.id] = write_results(@, w.toks)]
             /\ loc' = IF w.raised
                         THEN [loc EXCEPT !.raised = @ \cup {"write"}, !.extract = "raised"]
                         ELSE [loc EXCEPT !.extract = "returned"]
             /\ jpc' = IF w.raised THEN "raised" ELSE "extracted"
             /\ faults' = IF fault = "none" THEN faults ELSE faults + 1
    /\ UNCHANGED <<exc, job, eng, cmds, envVars, orchVars>>

run_outcome_marks(raised) == [done |-> TRUE, propagates |-> FALSE]

run_outcome_propagates(raised) == [done |-> ~raised, propagates |-> raised]

\* lines 253-261: done, and whether the exception leaves run
run_outcome(raised) == [done |-> ~raised, propagates |-> FALSE]

\* lines 256-265, and the step of the loop of SISYPHOS.run
RunFinish ==
    /\ jpc \in {"extracted", "raised"}
    /\ LET o == run_outcome(jpc = "raised")
       IN  /\ fs' = [fs EXCEPT ![job.id] =
                        IF o.propagates THEN @
                        ELSE IF o.done
                          THEN Dir(PutFile(write_log(@, << <<"Extracted Information">> >>).files,
                                           DoneFile, << >>))
                          ELSE write_log(@, << <<"Failed to extract information!">> >>)]
           /\ IF o.propagates
                THEN /\ exc' = "Exception"
                     /\ opc' = "idle"
                     /\ UNCHANGED runI
                ELSE /\ runI' = runI + 1
                     /\ UNCHANGED <<exc, opc>>
    /\ jpc' = "returned"
    /\ job_list' = [job_list EXCEPT ![runI] = job]
    /\ UNCHANGED <<job, loc, eng, cmds, faults, initI, nRuns, sisy, envVars>>

(***************************************************************************)
(* The SISYPHOS orchestrator: run and init_sisy_jobs.                      *)
(***************************************************************************)
\* SisyphosBenchmarkFile.is_finished: the done marker of the job exists
is_finished(w) == w.exists /\ DoneFile \in DOMAIN w.files

\* lines 554-559: the options read from the host, two of them forced
NosOptions(e) ==
    LET read == [i \in 1 .. Len(nos_params) |->
                    <<nos_params[i], e.params[NosName(nos_params[i])]>>]
    IN  DictSet(DictSet(read, "full_HAR", "True"), "Max_HAR_Cycles", "15")

init_skip_never(finished) == FALSE

\* lines 511-513 and 528-530: a finished job is skipped
init_skip(finished) == finished

Construct_ignores_IAM(i, hk, ins) ==
    BenchJob(fs[i], dataDir, i, sisy.use_nosphera2,
             Some(DictUpdate(sisy.nos2_options, bench[i])), hk, ins)

\* lines 515-524 and 532-540: the job constructed for index i
Construct(i, hk, ins) ==
    LET tmp_job_dict == DictUpdate(sisy.nos2_options, bench[i])
    IN  IF DictHas(tmp_job_dict, "IAM")
          THEN BenchJob(fs[i], dataDir, i, FALSE, None, hk, ins)
          ELSE BenchJob(fs[i], dataDir, i, sisy.use_nosphera2, Some(tmp_job_dict),
                        hk, ins)

JobAtRest == jpc \in {"idle", "returned"}

\* lines 554-561: SISYPHOS.run is called
SisyRun ==
    /\ opc = "idle"
    /\ JobAtRest
    /\ nRuns < world.maxRuns
    /\ nRuns' = nRuns + 1
    /\ sisy' = [use_nosphera2 |-> useNos2, nos2_options |-> NosOptions(eng)]
    /\ opc' = "init"
    /\ initI' = 0
    /\ job_list' = << >>
    /\ runI' = 1
    /\ exc' = "none"
    /\ UNCHANGED <<fs, job, jobVars, envVars>>

\* lines 510-524: init_sisy_jobs when one job index is given
InitSingle ==
    /\ opc = "init"
    /\ jobIdx # -1
    /\ \/ /\ init_skip(is_finished(fs[jobIdx]))
          /\ opc' = "loop"
          /\ UNCHANGED <<fs, job_list, exc, before>>
       \/ /\ ~init_skip(is_finished(fs[jobIdx]))
          /\ before' = fs[jobIdx]
          /\ \E hk \in GlobFirst(dataDir, "hkl"), ins \in GlobFirst(dataDir, "ins") :
               LET b == Construct(jobIdx, hk, ins)
               IN  /\ fs' = [fs EXCEPT ![jobIdx] = b.ws]
                   /\ job_list' = IF b.exc = "none" THEN << b.job >> ELSE job_list
                   /\ opc' = IF b.exc = "none" THEN "loop" ELSE "idle"
                   /\ exc' = b.exc
    /\ UNCHANGED <<initI, runI, nRuns, sisy, job, jobVars, cfgVars>>

after_construct_swallow(raised, last) == IF last THEN "loop" ELSE "init"

\* lines 527-542 and 561: where the orchestrator stands once the construction
\* of a job has returned or raised; an exception leaves init_sisy_jobs and
\* SISYPHOS.run, otherwise the loop goes on or returns job_list
after_construct(raised, last) ==
    IF raised THEN "idle" ELSE IF last THEN "loop" ELSE "init"

\* lines 526-542: one turn of the loop of init_sisy_jobs over all jobs
InitBatch ==
    /\ opc = "init"
    /\ jobIdx = -1
    /\ initI < NJobs
    /\ \/ /\ init_skip(is_finished(fs[initI]))
          /\ opc' = IF initI + 1 = NJobs THEN "loop" ELSE "init"
          /\ UNCHANGED <<fs, job_list, exc, before>>
       \/ /\ ~init_skip(is_finished(fs[initI]))
          /\ before' = fs[initI]
          /\ \E hk \in GlobFirst(dataDir, "hkl"), ins \in GlobFirst(dataDir, "ins") :
               LET b == Construct(initI, hk, ins)
               IN  /\ fs' = [fs EXCEPT ![initI] = b.ws]
                   /\ job_list' = IF b.exc = "none" THEN Append(job_list, b.job)
                                  ELSE job_list
                   /\ opc' = after_construct(b.exc # "none", initI + 1 = NJobs)
                   /\ exc' = b.exc
    /\ initI' = initI + 1
    /\ UNCHANGED <<runI, nRuns, sisy, job, jobVars, cfgVars>>

for_job_reversed(list, i) == list[Len(list) + 1 - i]

\* line 563: the job that turn i of `for job in job_list` yields
for_job(list, i) == list[i]

\* lines 563-567: the next job of job_list is run
StartJob ==
    /\ opc = "loop"
    /\ JobAtRest
    /\ runI <= Len(job_list)
    /\ job' = for_job(job_list, runI)
    /\ jpc' = "load"
    /\ loc' = LocInit
    /\ cmds' = << >>
    /\ UNCHANGED <<fs, exc, eng, faults, envVars, orchVars>>

\* SISYPHOS.run returns
EndRun ==
    /\ opc = "loop"
    /\ JobAtRest
    /\ runI > Len(job_list)
    /\ opc' = "idle"
    /\ UNCHANGED <<fs, exc, job, jobVars, initI, job_list, runI, nRuns, sisy, envVars>>

\* a BenchJob is constructed on its own, whatever its workspace held before
WSConstruct ==
    /\ opc = "idle"
    /\ \E id \in JobIds, use \in BOOLEAN,
          params \in {None, Some(<< <<"method", "PBE">> >>)},
          hk \in GlobFirst(dataDir, "hkl"), ins \in GlobFirst(dataDir, "ins") :
         LET b == BenchJob(fs[id], dataDir, id, use, params, hk, ins)
         IN  /\ fs' = [fs EXCEPT ![id] = b.ws]
             /\ before' = fs[id]
             /\ job' = b.job
             /\ exc' = b.exc
    /\ UNCHANGED <<jobVars, orchVars, cfgVars>>

(***************************************************************************)
(* What the environment is drawn from.                                     *)
(***************************************************************************)
ExtiReadings ==
    { ExtiNA,
      <<"0", ".", "0", "0", "0", "5", "(", "3", ")">>,
      <<"0", ".", "0", "0", "2", "(", "1", ")">>,
      <<"0", ".", "0", "0", "1">>,
      <<"0", ".", "0", "0", "1", "(", "2", ")">>,
      <<"0", ".", "0", "0", "1", "0", "(", "1", ")">>,
      <<"0", ".", "0", "0", "0", "9", "(", "9", ")">>,
      <<"0">>,
      <<"-", "0", ".", "0", "0", "0", "3", "(", "2", ")">>,
      <<"0", ".", "0", "1", "(", "1", ")">>,
      <<"(", "3", ")">> }

CifGood ==
    << [kind |-> "field", name |-> "R1", val |-> <<"0", ".", "0", "3", "4", "5">>],
       [kind |-> "header"],
       [kind |-> "atom", label |-> "C1", ueq |-> <<"0", ".", "0", "4", "5", "(", "2", ")">>],
       [kind |-> "blank"] >>

\* the lines a report is made of: a field of the first pass, the trigger
\* header, an atom record (labelled by its line, well-formed or with a Ueq
\* that lacks its parenthesis) and the blank line
FieldLine == [kind |-> "field", name |-> "R1", val |-> <<"0", ".", "0", "3", "4", "5">>]

HeaderLine == [kind |-> "header"]

BlankLine == [kind |-> "blank"]

AtomLabels == <<"C1", "C2", "C3", "C4", "C5">>

GoodUeq == <<"0", ".", "0", "4", "5", "(", "2", ")">>

BadUeq == <<"0", ".", "0", "4", "5">>

AtomLine(i, ueq) == [kind |-> "atom", label |-> AtomLabels[i], ueq |-> ueq]

\* the reports: a field line followed by four lines of any of the kinds
CifTexts ==
    { << FieldLine >> \o
      [i \in 1 .. 4 |->
          CASE k[i] = "header" -> HeaderLine
            [] k[i] = "blank"  -> BlankLine
            [] k[i] = "good"   -> AtomLine(i + 1, GoodUeq)
            [] OTHER           -> AtomLine(i + 1, BadUeq)] :
      k \in [1 .. 4 -> {"header", "blank", "good", "bad"}] }

DataNames == {<<"a", "hkl">>, <<"b", "hkl">>, <<"m", "ins">>, <<"n", "ins">>,
              <<"notes", "txt">>}

\* a data directory holding the files S
DataDirOf(S) == [n \in S |-> <<"data", n[1]>>]

GoodData == DataDirOf({<<"a", "hkl">>, <<"m", "ins">>, <<"notes", "txt">>})

\* the benchmark configurations
Configs == { << <<"IAM", "True">> >>,
             << <<"method", "B3LYP">> >>,
             << <<"multiplicity", "2">>, <<"h_aniso", "False">>,
                <<"precise_output", "False">>, <<"Calculate", "False">> >> }

\* workspaces left behind by earlier runs
PriorWorkspaces ==
    { Absent,
      Dir(EmptyDir),
      Dir([n \in {LogFile} |-> << <<"old">> >>]),
      Dir([n \in {<<"a", "hkl">>, <<"m", "ins">>, LogFile, ResultsFile, CifFile} |->
              << <<"old">> >>]),
      Dir([n \in {<<"a", "hkl">>, <<"old", "ins">>, LogFile, ResultsFile, DoneFile} |->
              << <<"old">> >>]) }

\* the calls of the propagation block, one of each part of it, and the loop
PropFaultsSome == {"fmr.run", "r1_factor gt", "covariance_matrix",
                   "calculate_distances", "pair"}

\* a unit cell: lengths and angles, and their uncertainties
Cell(a, b, c, al, be, ga, ea, eb, ec, eal, ebe, ega) ==
    [params |-> [k \in CellIdx |-> <<a, b, c, al, be, ga>>[k + 1]],
     errors |-> [k \in CellIdx |-> <<ea, eb, ec, eal, ebe, ega>>[k + 1]]]

CubicCell == Cell(5, 5, 5, 90, 90, 90, 2, 2, 2, 0, 0, 0)

\* cells with equal and unequal lengths and uncertainties, angles at and off
\* 90, with and without an uncertainty
Cells ==
    { Cell(a, b, c, al, 90, ga, ea, eb, 2, eal, 0, ega) :
        a \in {5, 6}, b \in {5, 6}, c \in {5, 6},
        al \in {90, 100}, ga \in {90, 100},
        ea \in {0, 2}, eb \in {0, 2},
        eal \in {0, 1}, ega \in {0, 1} }

\* the orchestrator: every kind of failure, one at a time
World ==
    [faultCap     |-> MaxFaults,
     maxRuns      |-> MaxRuns,
     refineFaults |-> "first",
     extis        |-> {ExtiNA},
     cifs         |-> {CifGood},
     variances    |-> {4},
     rfactors     |-> {[all |-> 5, gt |-> 4, wR2 |-> 9]},
     cells        |-> {CubicCell},
     cycles       |-> {7},
     guis         |-> {FALSE},
     cellFaults   |-> {1},
     propFaults   |-> {"fmr.run", "pair"},
     writeFaults  |-> {"npd"}]

\* one job, the refinement pass in full
WorldRefine ==
    [World EXCEPT !.maxRuns = 1,
                  !.refineFaults = "all",
                  !.extis = ExtiReadings,
                  !.cifs = {CifGood, NoCif},
                  !.cycles = {7, 20},
                  !.guis = BOOLEAN]

\* one job, the extraction in full
WorldExtract ==
    [World EXCEPT !.maxRuns = 1,
                  !.faultCap = 4,
                  !.cifs = {CifGood, NoCif},
                  !.variances = {4, -1},
                  !.rfactors = {[all |-> 5, gt |-> 4, wR2 |-> 9],
                                [all |-> 0, gt |-> 0, wR2 |-> 0]},
                  !.cellFaults = {1, 7, 9},
                  !.propFaults = PropFaultsSome,
                  !.writeFaults = {"refine_dict", "weight", "npd"}]

InitProgram ==
    /\ opc = "idle"
    /\ initI = 0
    /\ job_list = << >>
    /\ runI = 1
    /\ nRuns = 0
    /\ exc = "none"
    /\ job = NoJob
    /\ jpc = "idle"
    /\ loc = LocInit
    /\ cmds = << >>
    /\ faults = 0
    /\ sisy = [use_nosphera2 |-> FALSE, nos2_options |-> << >>]
    /\ before = Absent

\* the benchmark source of the orchestrator: job i has configuration i (mod 3)
ConfigSeq == << << <<"method", "B3LYP">> >>,
                << <<"IAM", "True">> >>,
                << <<"multiplicity", "2">>, <<"h_aniso", "False">> >> >>

BenchOf(i) == ConfigSeq[(i % Len(ConfigSeq)) + 1]

Init ==
    /\ InitProgram
    /\ fs = [i \in JobIds |-> Absent]
    /\ dataDir \in {GoodData, DataDirOf({<<"a", "hkl">>})}
    /\ bench = [i \in JobIds |-> BenchOf(i)]
    /\ useNos2 = TRUE
    /\ updateWeight = TRUE
    /\ jobIdx \in {-1, NJobs - 1}
    /\ world = World
    /\ eng = EngInit

JobNext ==
    \/ Load
    \/ Prepare
    \/ WeightPolicy
    \/ EngineSelect
    \/ IamPass
    \/ ExtinctionBranch
    \/ SecondIam
    \/ AdvancedPass
    \/ RunAfterRefine
    \/ ExtractCell
    \/ ExtractHkl
    \/ ExtractCif
    \/ Propagation
    \/ PairLoop
    \/ WriteResults
    \/ RunFinish

Next ==
    \/ SisyRun
    \/ InitSingle
    \/ InitBatch
    \/ StartJob
    \/ EndRun
    \/ JobNext

Spec == Init /\ [][Next]_vars

\* one call of SISYPHOS.run for the single job 0
NextSingle ==
    \/ SisyRun
    \/ InitSingle
    \/ StartJob
    \/ EndRun
    \/ JobNext

InitSingleJob ==
    /\ InitProgram
    /\ fs \in [JobIds -> {Absent}]
    /\ dataDir = GoodData
    /\ jobIdx = 0

InitRefine ==
    /\ InitSingleJob
    /\ bench \in {[i \in JobIds |-> IF i = 0 THEN c ELSE BenchOf(i)] : c \in Configs}
    /\ useNos2 \in BOOLEAN
    /\ updateWeight \in BOOLEAN
    /\ world = WorldRefine
    /\ eng \in {EngInit, EngAspherical}

SpecRefine == InitRefine /\ [][NextSingle]_vars

InitExtract ==
    /\ InitSingleJob
    /\ bench \in {[i \in JobIds |-> IF i = 0 THEN c ELSE BenchOf(i)] :
                    c \in {ConfigSeq[1], ConfigSeq[2]}}
    /\ useNos2 = TRUE
    /\ updateWeight = FALSE
    /\ world = WorldExtract
    /\ eng = EngInit

SpecExtract == InitExtract /\ [][NextSingle]_vars

\* one job, the cell covariance over many cells
WorldCell ==
    [World EXCEPT !.maxRuns = 1,
                  !.faultCap = 1,
                  !.cells = Cells]

InitCell ==
    /\ InitSingleJob
    /\ bench = [i \in JobIds |-> BenchOf(i)]
    /\ useNos2 = TRUE
    /\ updateWeight = TRUE
    /\ world = WorldCell
    /\ eng = EngInit

SpecCell == InitCell /\ [][NextSingle]_vars

\* one call of SISYPHOS.run for job 0, plain or advanced, and BenchJob
\* constructed on its own with and without a parameter set
WorldIam == [World EXCEPT !.maxRuns = 1]

InitIam ==
    /\ InitSingleJob
    /\ bench \in {[i \in JobIds |-> IF i = 0 THEN c ELSE BenchOf(i)] : c \in Configs}
    /\ useNos2 \in BOOLEAN
    /\ updateWeight = TRUE
    /\ world = WorldIam
    /\ eng = EngInit

NextIam ==
    \/ NextSingle
    \/ WSConstruct

SpecIam == InitIam /\ [][NextIam]_vars

\* one job, the report parsed over many reports
WorldCif == [World EXCEPT !.maxRuns = 1, !.cifs = CifTexts]

InitCif ==
    /\ InitSingleJob
    /\ bench = [i \in JobIds |-> BenchOf(i)]
    /\ useNos2 = TRUE
    /\ updateWeight = TRUE
    /\ world = WorldCif
    /\ eng = EngInit

SpecCif == InitCif /\ [][NextSingle]_vars

\* the environment: the starting model disappears from the data directory
DataLoss ==
    /\ <<"m", "ins">> \in DOMAIN dataDir
    /\ dataDir' = DataDirOf(DOMAIN dataDir \ {<<"m", "ins">>})
    /\ UNCHANGED <<fs, bench, useNos2, updateWeight, jobIdx, world, before,
                   exc, job, jobVars, orchVars>>

\* full-batch mode over a data directory that may lose a file at any time
InitBatchMode ==
    /\ InitProgram
    /\ fs = [i \in JobIds |-> Absent]
    /\ dataDir = GoodData
    /\ bench = [i \in JobIds |-> BenchOf(i)]
    /\ useNos2 = TRUE
    /\ updateWeight = TRUE
    /\ jobIdx = -1
    /\ world = World
    /\ eng = EngInit

NextBatch ==
    \/ SisyRun
    \/ InitBatch
    \/ StartJob
    \/ EndRun
    \/ JobNext
    \/ DataLoss

SpecBatch == InitBatchMode /\ [][NextBatch]_vars

InitWS ==
    /\ InitProgram
    /\ fs \in [JobIds -> PriorWorkspaces]
    /\ dataDir \in {DataDirOf(S) : S \in SUBSET DataNames}
    /\ bench = [i \in JobIds |-> << >>]
    /\ useNos2 = FALSE
    /\ updateWeight = FALSE
    /\ jobIdx = -1
    /\ world = World
    /\ eng = EngInit

NextWS == WSConstruct

SpecWS == InitWS /\ [][NextWS]_vars

(***************************************************************************)
(* The claims.                                                             *)
(***************************************************************************)
HasDone(w) == w.exists /\ DoneFile \in DOMAIN w.files

LogHas(w, msg) == \E i \in 1 .. Len(LogOf(w)) : LogOf(w)[i] = msg

\* the results file ends with the closing separator of a block
ResultsComplete(w) ==
    /\ ResultsOf(w) # << >>
    /\ ResultsOf(w)[Len(ResultsOf(w))] = <<"sep">>

\* the R-factor lines of the results file
RLines(w) == {i \in 1 .. Len(ResultsOf(w)) : ResultsOf(w)[i][1] = "R"}

\* the entries of the results file between the header hdr and the next part
SectionAfter(w, i) ==
    {k \in (i + 1) .. Len(ResultsOf(w)) :
        /\ ResultsOf(w)[k][1] = "kv"
        /\ \A m \in (i + 1) .. k : ResultsOf(w)[m][1] = "kv"}

BondEntries(w) ==
    UNION {SectionAfter(w, i) : i \in {h \in 1 .. Len(ResultsOf(w)) :
              ResultsOf(w)[h] \in {Hdr("bondlengths:"), Hdr("bonderrors:")}}}

Issues(op, arg) == \E i \in 1 .. Len(cmds) : cmds[i].op = op /\ cmds[i].arg = arg

\* C1: once BenchJob.run has returned, the done marker exists in the job's
\* workspace if and only if extract_info returned without raising, whether or
\* not refine logged a failure.
C1_DoneIffExtracted ==
    jpc = "returned" => (HasDone(fs[job.id]) <=> loc.extract = "returned")

\* a run in which refine logged its failure and the marker was still written
C1_Witness ==
    /\ jpc = "returned"
    /\ loc.failedAt > 0
    /\ LogHas(fs[job.id], <<"Failed during refinenement!">>)
    /\ loc.extract = "returned"
    /\ HasDone(fs[job.id])

\* C2: a job whose done marker exists is never constructed again: no step
\* changes its workspace, and no step starts its run, in either mode and over
\* repeated calls of SISYPHOS.run.
C2_FinishedNeverRebuilt ==
    [][\A i \in JobIds :
          is_finished(fs[i]) => /\ fs'[i] = fs[i]
                                /\ ~(jpc' = "load" /\ job'.id = i)]_vars

\* a second call of SISYPHOS.run has built its job list without a finished job
C2_Witness ==
    /\ nRuns = 2
    /\ opc = "loop"
    /\ jobIdx = -1
    /\ job_list # << >>
    /\ \E i \in JobIds :
         /\ is_finished(fs[i])
         /\ \A k \in 1 .. Len(job_list) : job_list[k].id # i

\* C3 (as claimed): when a step of the propagation block has raised, the
\* R-factors written to the results are all 0 and the two bond tables are empty.
C3_AllOrNothing_Claimed ==
    (jpc = "returned" /\ "prop" \in loc.raised) =>
      /\ \A i \in RLines(fs[job.id]) :
           /\ ResultsOf(fs[job.id])[i][2] = 0
           /\ ResultsOf(fs[job.id])[i][3] = 0
           /\ ResultsOf(fs[job.id])[i][4] = 0
      /\ BondEntries(fs[job.id]) = {}

\* C4: no failure inside a job's run leaves BenchJob.run: when SISYPHOS.run
\* has returned without a construction error, every job of its job list has
\* been run to the end of its refinement and on to the end of run.
C4_RunAlwaysReturns ==
    /\ exc # "Exception"
    /\ (opc = "idle" /\ nRuns > 0 /\ exc = "none") =>
         /\ runI = Len(job_list) + 1
         /\ \A k \in 1 .. Len(job_list) :
              /\ LogHas(fs[job_list[k].id], <<"header", "Finished Refinement">>)
              /\ \/ LogHas(fs[job_list[k].id], <<"Extracted Information">>)
                 \/ LogHas(fs[job_list[k].id], <<"Failed to extract information!">>)

\* the first job of the list failed in extraction and the next one was run
C4_Witness ==
    /\ opc = "idle"
    /\ Len(job_list) >= 2
    /\ LogHas(fs[job_list[1].id], <<"Failed to extract information!">>)
    /\ HasDone(fs[job_list[2].id])

\* C5 (as claimed): when no report file is found and no engine call raises,
\* the results block is written to its end and the done marker is created.
C5_CifFailureHarmless_Claimed ==
    (jpc = "returned" /\ "cif" \in loc.raised /\ faults = 0
       /\ loc.raised \subseteq {"cif", "write"}) =>
      /\ ResultsComplete(fs[job.id])
      /\ HasDone(fs[job.id])

\* C6 (as claimed): when the query of the cell statistics or of the
\* reflection statistics raises, the failure is logged, the later categories
\* are attempted and the results block is written.
C6_CategoriesWrapped_Claimed ==
    (jpc = "returned" /\ loc.raised \cap {"cell", "hkl"} # {}) =>
      /\ LogHas(fs[job.id], <<"error">>)
      /\ ResultsOf(fs[job.id]) # << >>

\* the stages of refine
RefineStages == {"load", "prepare", "weight", "select", "iam", "exti", "second",
                 "advanced"}

\* C7: once a call of refine has raised, no further engine command of the pass
\* is issued, the error is in the job's log, and extract_info is called exactly
\* once afterwards.
C7_NoStageAfterFailure ==
    loc.failedAt > 0 =>
      /\ Len(cmds) = loc.failedAt
      /\ jpc \notin RefineStages
      /\ LogHas(fs[job.id], <<"error">>)
      /\ LogHas(fs[job.id], <<"Failed during refinenement!">>)
      /\ loc.nExtract = IF jpc = "finished" THEN 0 ELSE 1

\* the IAM pass raised, and run has returned after one call of extract_info
C7_Witness ==
    /\ jpc = "returned"
    /\ loc.failedAt > 0
    /\ cmds[loc.failedAt].stage = 5
    /\ loc.nExtract = 1

\* the numeric prefix of each reading, in units of 0.0001
ReadingValues ==
    {
      <<<<"0", ".", "0", "0", "0", "5", "(", "3", ")">>, 5>>,
      <<<<"0", ".", "0", "0", "2", "(", "1", ")">>, 20>>,
      <<<<"0", ".", "0", "0", "1">>, 10>>,
      <<<<"0", ".", "0", "0", "1", "(", "2", ")">>, 10>>,
      <<<<"0", ".", "0", "0", "1", "0", "(", "1", ")">>, 10>>,
      <<<<"0", ".", "0", "0", "0", "9", "(", "9", ")">>, 9>>,
      <<<<"0">>, 0>>,
      <<<<"-", "0", ".", "0", "0", "0", "3", "(", "2", ")">>, -3>>,
      <<<<"0", ".", "0", "1", "(", "1", ")">>, 100>> }

Numeric(exti) == \E rv \in ReadingValues : rv[1] = exti

ValueOf(exti) == (CHOOSE rv \in ReadingValues : rv[1] = exti)[2]

Deleted == Issues("delins", "EXTI")

Switched == Issues("set_refinement_program", "Levenberg-Marquardt")

\* C8: the extinction branch.  For the sentinel neither command is issued; for
\* a numeric prefix below 0.001 EXTI is deleted and the program stays
\* Gauss-Newton; for one at or above 0.001 the program becomes
\* Levenberg-Marquardt and EXTI is kept.  Never both.
C8_ExtinctionBranch ==
    /\ ~(Deleted /\ Switched)
    /\ (loc.exti # << >> /\ loc.failedAt = 0) =>
         /\ loc.exti = ExtiNA =>
              ~Deleted /\ ~Switched /\ eng.program = "Gauss-Newton"
         /\ (Numeric(loc.exti) /\ ValueOf(loc.exti) < 10) =>
              Deleted /\ "EXTI" \notin eng.ins /\ eng.program = "Gauss-Newton"
         /\ (Numeric(loc.exti) /\ ValueOf(loc.exti) >= 10) =>
              Switched /\ "EXTI" \in eng.ins
                /\ eng.program = "Levenberg-Marquardt"

\* the reading is exactly the threshold, and the optimizer was switched
C8_Witness ==
    /\ jpc = "second"
    /\ loc.exti = <<"0", ".", "0", "0", "1">>
    /\ Switched
    /\ ~Deleted

\* the data directory holds exactly one file of each kind
OneOfEach ==
    /\ Cardinality(Glob(dataDir, "hkl")) = 1
    /\ Cardinality(Glob(dataDir, "ins")) = 1

\* C9: with one .hkl and one .ins in the data directory, the workspace of a
\* job just constructed holds exactly the copies of those two files, whatever
\* it held before and however often the job is constructed.
C9_WorkspaceFresh ==
    (job # NoJob /\ OneOfEach) =>
      fs[job.id] = Dir([n \in Glob(dataDir, "hkl") \cup Glob(dataDir, "ins") |->
                           dataDir[n]])

\* a job was constructed over a workspace that held a log and a done marker
C9_Witness ==
    /\ job # NoJob
    /\ OneOfEach
    /\ exc = "none"
    /\ HasDone(before)
    /\ LogFile \in DOMAIN before.files
    /\ DOMAIN fs[job.id].files = {<<"a", "hkl">>, <<"m", "ins">>}

\* C10 (as claimed): the construction fails with an index error exactly when
\* the data directory does not hold exactly one .hkl and exactly one .ins.
C10_IndexError_Claimed ==
    job # NoJob => (exc = "IndexError" <=> ~OneOfEach)

\* C10 (amended): the construction fails with an index error exactly when the
\* data directory holds no .hkl or no .ins; with one or more of each it
\* succeeds and the workspace holds one .hkl and one .ins of the data directory.
C10_IndexError ==
    job # NoJob =>
      /\ exc = "IndexError" <=>
           (Glob(dataDir, "hkl") = {} \/ Glob(dataDir, "ins") = {})
      /\ exc = "none" =>
           /\ Cardinality(Glob(fs[job.id].files, "hkl")) = 1
           /\ Cardinality(Glob(fs[job.id].files, "ins")) = 1
           /\ \A n \in DOMAIN fs[job.id].files :
                n \in DOMAIN dataDir /\ fs[job.id].files[n] = dataDir[n]

\* two .hkl files, and the construction succeeded
C10_Witness ==
    /\ job # NoJob
    /\ Cardinality(Glob(dataDir, "hkl")) = 2
    /\ exc = "none"
    /\ fs[job.id].exists

\* C11 (as claimed): when the construction of a job has failed on a missing
\* input file, no refinement command was issued for it, its workspace holds no
\* log, and its workspace directory does not exist.
C11_NoWorkspace_Claimed ==
    (job # NoJob /\ exc = "IndexError") =>
      /\ cmds = << >>
      /\ LogFile \notin DOMAIN fs[job.id].files
      /\ ~fs[job.id].exists

\* the lengths i < j of a cell
LengthPairs == {<<0, 1>>, <<0, 2>>, <<1, 2>>}

\* the two lengths and their uncertainties agree, and both angles are 90 exactly
Coupled(p) ==
    /\ loc.cell_params[p[1]] = loc.cell_params[p[2]]
    /\ loc.cell_errors[p[1]] = loc.cell_errors[p[2]]
    /\ \A k \in {p[1] + 3, p[2] + 3} :
         loc.cell_params[k] = 90 /\ loc.cell_errors[k] = 0

\* C12: the cell covariance matrix has the squared uncertainties on its
\* diagonal; for lengths i < j its entries (i, j) and (j, i) are the squared
\* uncertainty of axis i when the two lengths and their uncertainties are equal
\* and angle i and angle j are 90 with zero uncertainty, and zero otherwise;
\* every other off-diagonal entry is zero and the matrix is symmetric.
C12_CellCovariance ==
    loc.cell_vcv # << >> =>
      /\ \A k \in CellIdx :
           loc.cell_vcv[<<k, k>>] = loc.cell_errors[k] * loc.cell_errors[k]
      /\ \A p \in LengthPairs :
           /\ loc.cell_vcv[p] =
                IF Coupled(p) THEN loc.cell_errors[p[1]] * loc.cell_errors[p[1]] ELSE 0
           /\ loc.cell_vcv[<<p[2], p[1]>>] = loc.cell_vcv[p]
      /\ \A p \in CellIdx \X CellIdx :
           /\ loc.cell_vcv[p] = loc.cell_vcv[<<p[2], p[1]>>]
           /\ (p[1] # p[2] /\ p \notin LengthPairs /\ <<p[2], p[1]>> \notin LengthPairs)
                => loc.cell_vcv[p] = 0

\* a = b with equal uncertainties and alpha = beta = 90, c different: the
\* pair (a, b) is coupled, the pairs with c are not although gamma is not 90
C12_Witness ==
    /\ loc.cell_vcv # << >>
    /\ loc.cell_params = [k \in CellIdx |-> <<5, 5, 6, 90, 90, 100>>[k + 1]]
    /\ loc.cell_errors = [k \in CellIdx |-> <<2, 2, 2, 0, 0, 1>>[k + 1]]
    /\ jpc = "returned"
    /\ loc.cell_vcv[<<0, 1>>] = 4
    /\ loc.cell_vcv[<<1, 0>>] = 4
    /\ loc.cell_vcv[<<0, 2>>] = 0
    /\ loc.cell_vcv[<<1, 2>>] = 0

IsMark(t) == t[1] # "kv"

\* the headers and marker lines of the results file, in the order written
Skeleton(w) ==
    LET marks == SelectSeq(ResultsOf(w), IsMark)
    IN  [i \in 1 .. Len(marks) |->
            IF marks[i][1] = "hdr" THEN marks[i][2] ELSE marks[i][1]]

BlockOrder ==
    << "NoSpherA2_Dict:", "Stats-GetHklStat:", "Cell-Stats:", "CIF-stats:",
       "refine_dict:", "R", "bondlengths:", "bonderrors:", "Weight", "Nr. NPD",
       "sep" >>

HdrIndex(w, text) ==
    CHOOSE i \in 1 .. Len(ResultsOf(w)) : ResultsOf(w)[i] = Hdr(text)

\* the labels listed under the header text, in the order written
SectionLabels(w, text) ==
    LET h == HdrIndex(w, text)
    IN  [k \in 1 .. Cardinality(SectionAfter(w, h)) |-> ResultsOf(w)[h + k][2]]

\* C13: a results block written to its end holds the headers in the fixed
\* order, from NoSpherA2_Dict to the closing separator, and its bonderrors
\* section lists the labels of its bondlengths section in the same order,
\* after them.
C13_BlockOrder ==
    (jpc \in {"extracted", "returned"} /\ loc.extract = "returned") =>
      /\ Skeleton(fs[job.id]) = BlockOrder
      /\ SectionLabels(fs[job.id], "bonderrors:") =
           SectionLabels(fs[job.id], "bondlengths:")
      /\ SectionLabels(fs[job.id], "bondlengths:") = DictKeys(loc.dist_stats)
      /\ HdrIndex(fs[job.id], "bondlengths:") < HdrIndex(fs[job.id], "bonderrors:")

\* a complete block listing two bonds, with the report's fields in it
C13_Witness ==
    /\ jpc = "returned"
    /\ loc.extract = "returned"
    /\ loc.cif_stats.bound
    /\ SectionLabels(fs[job.id], "bondlengths:") = <<BondLabel(1), BondLabel(2)>>
    /\ SectionLabels(fs[job.id], "bonderrors:") = <<BondLabel(1), BondLabel(2)>>

\* the run of the job with workspace w has begun / has returned
RunBegun(w) == LogFile \in DOMAIN w.files

RunReturned(w) ==
    \/ LogHas(w, <<"Extracted Information">>)
    \/ LogHas(w, <<"Failed to extract information!">>)

RunInProgress == jpc \notin {"idle", "returned"}

\* C14: the jobs of the job list are in the order of the benchmark source and
\* run one after the other: while the orchestrator loops, every job before the
\* current position of the list has returned from its run, no job after it has
\* begun, and a run in progress is that of the job at the current position.
C14_Sequential ==
    opc = "loop" =>
      /\ \A k, m \in 1 .. Len(job_list) : k < m => job_list[k].id < job_list[m].id
      /\ \A k \in 1 .. Len(job_list) :
           /\ k < runI => RunReturned(fs[job_list[k].id])
           /\ k > runI => ~RunBegun(fs[job_list[k].id])
           /\ k = runI => IF RunInProgress THEN job.id = job_list[k].id
                          ELSE ~RunBegun(fs[job_list[k].id])

\* the second job of the list is in its IAM pass, the first has returned
C14_Witness ==
    /\ opc = "loop"
    /\ Len(job_list) = 2
    /\ runI = 2
    /\ jpc = "iam"
    /\ job.id = job_list[2].id
    /\ RunReturned(fs[job_list[1].id])
    /\ ~RunReturned(fs[job_list[2].id])

\* the merged configuration of job i holds the key "IAM"
MergedHasIAM(i) == DictHas(DictUpdate(sisy.nos2_options, bench[i]), "IAM")

\* C15: a job whose merged configuration holds the key "IAM" is constructed
\* with use_nos2 false and no parameter set, whatever sisyphos.use_nos2 says,
\* and its run neither sets the NoSpherA2 source nor issues the 20-step
\* refinement; and every job constructed without a parameter set has use_nos2
\* false.
C15_IamIsPlain ==
    /\ (job # NoJob /\ job.nos2_params.isNone) => ~job.use_nos2
    /\ \A k \in 1 .. Len(job_list) :
         MergedHasIAM(job_list[k].id) =>
           ~job_list[k].use_nos2 /\ job_list[k].nos2_params = None
    /\ (opc = "loop" /\ jpc # "idle" /\ MergedHasIAM(job.id)) =>
         /\ ~Issues("SetParam", NosName("source"))
         /\ ~Issues("refine", "20")

\* advanced mode is on, the job's configuration holds "IAM", and its run has
\* returned after the 10-step refinement
C15_Witness ==
    /\ opc = "loop"
    /\ jpc = "returned"
    /\ sisy.use_nosphera2
    /\ MergedHasIAM(job.id)
    /\ loc.failedAt = 0
    /\ Issues("refine", "10")

IsRefine(c) == c.op = "refine"

\* the refine commands issued so far, in order
RefineCmds == SelectSeq(cmds, IsRefine)

\* refine has returned and none of its calls raised
RefinePassed == loc.failedAt = 0 /\ jpc \notin RefineStages \cup {"idle"}

\* C16: in a pass in which no call raises, the refine commands are three
\* 5-step refinements, one 10-step refinement, and then one 20-step
\* refinement exactly when the job's use_nos2 is set; the first four run with
\* use_aspherical off, the 20-step one with use_aspherical on.
C16_RefineOrder ==
    RefinePassed =>
      /\ [i \in 1 .. Len(RefineCmds) |-> RefineCmds[i].arg] =
           <<"5", "5", "5", "10">> \o (IF job.use_nos2 THEN <<"20">> ELSE << >>)
      /\ \A i \in 1 .. Len(RefineCmds) :
           RefineCmds[i].asph = IF i <= 4 THEN "False" ELSE "True"

\* an advanced job whose extinction branch switched the optimizer: five
\* refine commands, the last one the 20-step refinement
C16_Witness ==
    /\ RefinePassed
    /\ job.use_nos2
    /\ Switched
    /\ Len(RefineCmds) = 5
    /\ RefineCmds[5].arg = "20"
    /\ RefineCmds[5].asph = "True"
    /\ RefineCmds[4].asph = "False"

\* the entries of the running job's parameter set
JobEntries ==
    IF job.nos2_params.isNone THEN {}
    ELSE {job.nos2_params.d[i] : i \in 1 .. Len(job.nos2_params.d)}

ParamIs(key, v) == eng.params[NosName(key)] = v

\* C17 (as claimed): when the 20-step refinement has been issued, h_aniso,
\* precise_output and use_aspherical are on whatever the job's configuration
\* gave for them, and every other entry of the configuration holds the job's
\* value.
C17_ForcedParams_Claimed ==
    Issues("refine", "20") =>
      /\ ParamIs("h_aniso", "True")
      /\ ParamIs("precise_output", "True")
      /\ ParamIs("use_aspherical", "True")
      /\ \A e \in JobEntries :
           e[1] \notin {"h_aniso", "precise_output", "use_aspherical"}
             => ParamIs(e[1], e[2])

\* C17 (amended): when the 20-step refinement has been issued, h_aniso,
\* precise_output, use_aspherical and Calculate are on whatever the job's
\* configuration gave for them; a multiplicity of "0" has become "1"; every
\* other entry of the configuration holds the job's value.
C17_ForcedParams ==
    Issues("refine", "20") =>
      /\ ParamIs("h_aniso", "True")
      /\ ParamIs("precise_output", "True")
      /\ ParamIs("use_aspherical", "True")
      /\ ParamIs("Calculate", "True")
      /\ \A e \in JobEntries :
           e[1] \notin {"h_aniso", "precise_output", "use_aspherical", "Calculate"}
             => ParamIs(e[1], IF e = <<"multiplicity", "0">> THEN "1" ELSE e[2])

\* the configuration turns h_aniso and precise_output off and gives a
\* multiplicity of 2; the 20-step refinement ran with both on and 2 kept
C17_Witness ==
    /\ Issues("refine", "20")
    /\ <<"h_aniso", "False">> \in JobEntries
    /\ <<"precise_output", "False">> \in JobEntries
    /\ <<"multiplicity", "2">> \in JobEntries
    /\ ParamIs("h_aniso", "True")
    /\ ParamIs("precise_output", "True")
    /\ ParamIs("multiplicity", "2")

\* the report the job parsed
Report == fs[job.id].files[CifFile]

\* line i lies after a header line with no blank line in between
InAtomBlock(i) ==
    \E h \in 1 .. (i - 1) :
      /\ Report[h].kind = "header"
      /\ \A m \in (h + 1) .. (i - 1) : Report[m].kind # "blank"

IsRecord(i) == Report[i].kind \notin {"header", "blank"}

WellFormed(i) == Report[i].kind = "atom" /\ Report[i].ueq = GoodUeq

\* the records of the atom block that cannot be parsed
BadRecords == {i \in 1 .. Len(Report) : InAtomBlock(i) /\ IsRecord(i) /\ ~WellFormed(i)}

\* the records the second pass takes: those of an atom block, up to the first
\* that cannot be parsed
TakenRecords ==
    {i \in 1 .. Len(Report) :
       /\ InAtomBlock(i) /\ WellFormed(i)
       /\ \A b \in BadRecords : i < b}

\* C18: the second pass of parse_cif takes atom records only from lines after
\* a trigger header and before the next blank line; a record that cannot be
\* parsed is logged and ends the scan, and the fields of the first pass and the
\* atoms taken before it are kept.
C18_AtomBlock ==
    (loc.cif_stats.bound /\ CifFile \in DOMAIN fs[job.id].files) =>
      /\ \A i \in 1 .. Len(Report) :
           Report[i].kind = "atom" =>
             (DictHas(loc.cif_stats.d, <<Report[i].label, "_ueq">>)
                <=> i \in TakenRecords)
      /\ DictHas(loc.cif_stats.d, <<"R1">>)
      /\ LogHas(fs[job.id], <<"Extended cif extraction failed!">>)
           <=> BadRecords # {}

\* header, atom, a record that cannot be parsed, atom: the first atom and the
\* field are kept, the failure is logged, the last atom is not taken
C18_Witness ==
    /\ loc.cif_stats.bound
    /\ CifFile \in DOMAIN fs[job.id].files
    /\ Report = <<FieldLine, HeaderLine, AtomLine(3, GoodUeq), AtomLine(4, BadUeq),
                  AtomLine(5, GoodUeq)>>
    /\ DictKeys(loc.cif_stats.d) = << <<"R1">>, <<"C3", "_ueq">> >>
    /\ LogHas(fs[job.id], <<"Extended cif extraction failed!">>)

\* the results file holds a closing separator
HasSeparator(w) == \E i \in 1 .. Len(ResultsOf(w)) : ResultsOf(w)[i] = <<"sep">>

\* C19: once run has returned, the done marker exists exactly when the results
\* file holds a block written to its closing separator: a block cut short is
\* never accompanied by the marker, and the marker never stands without a
\* complete block.
C19_DoneIffCompleteBlock ==
    jpc = "returned" =>
      /\ HasDone(fs[job.id]) <=> HasSeparator(fs[job.id])
      /\ HasDone(fs[job.id]) =>
           ResultsComplete(fs[job.id]) /\ Skeleton(fs[job.id]) = BlockOrder
      /\ (ResultsOf(fs[job.id]) # << >> /\ ~ResultsComplete(fs[job.id]))
           => ~HasDone(fs[job.id])

\* the write was cut short after the Weight line: a partial block, no marker
C19_Witness ==
    /\ jpc = "returned"
    /\ "write" \in loc.raised
    /\ Skeleton(fs[job.id]) = SubSeq(BlockOrder, 1, 9)
    /\ ~HasDone(fs[job.id])

Keys(d) == {d[i][1] : i \in 1 .. Len(d)}

\* C20 (as claimed): when extract_info reaches the results write, dist_stats
\* and dist_errs hold the same bond labels, also after the loop over the pairs
\* was interrupted, and the bonderrors section is written without a missing
\* label.
C20_SameLabels_Claimed ==
    /\ jpc = "write" => Keys(loc.dist_stats) = Keys(loc.dist_errs)
    /\ (jpc = "raised" /\ "write" \in loc.raised) =>
         Keys(loc.dist_stats) \subseteq Keys(loc.dist_errs)

\* the job at position k of the job list has not begun its run
Waiting(k) == k > runI \/ (k = runI /\ ~RunInProgress)

\* the workspace holds input files only
InputsOnly(w) == w.exists /\ \A n \in DOMAIN w.files : n[2] \in {"hkl", "ins"}

\* C21: in full-batch mode no run begins before init_sisy_jobs has gone
\* through the whole benchmark source: while the jobs are run, every job that
\* is not finished is in the job list, and the jobs still waiting have their
\* workspace rebuilt with the input files only; and when the construction of a
\* job has failed, none of the jobs constructed in that batch is run.
C21_AllBuiltBeforeFirstRun ==
    /\ (opc = "init" /\ jobIdx = -1) => ~RunInProgress
    /\ (opc = "loop" /\ jobIdx = -1) =>
         /\ initI = NJobs
         /\ \A i \in JobIds :
              is_finished(fs[i]) \/ \E k \in 1 .. Len(job_list) : job_list[k].id = i
         /\ \A k \in 1 .. Len(job_list) :
              Waiting(k) => InputsOnly(fs[job_list[k].id])
    /\ (exc = "IndexError" /\ jobIdx = -1) =>
         /\ opc = "idle"
         /\ runI = 1
         /\ \A k \in 1 .. Len(job_list) : InputsOnly(fs[job_list[k].id])

\* the first job of a batch was constructed, the construction of the second
\* failed, and the first was not run
C21_Witness ==
    /\ jobIdx = -1
    /\ exc = "IndexError"
    /\ opc = "idle"
    /\ Len(job_list) = 1
    /\ InputsOnly(fs[job_list[1].id])
    /\ ~RunBegun(fs[job_list[1].id])

====
